---- MODULE Spec2Model ----
(***************************************************************************)
(* Autoregressive sequence decoding of speechbrain/decoders/seq2seq.py:    *)
(* filter_seq2seq_output, GreedySearcher.forward and BeamSearcher.forward. *)
(*                                                                         *)
(* Tensors are functions over 0-based index ranges, as in the source.      *)
(* Log-probabilities are integers; the two special float values of the     *)
(* source, -np.inf and minus_inf = -1e20, are the integers NegInf and      *)
(* MinusInf, and FAdd adds as float addition does on them.                 *)
(***************************************************************************)
EXTENDS Integers, Sequences, FiniteSets, TLC

Max(S) == CHOOSE x \in S : \A y \in S : y <= x
Min(S) == CHOOSE x \in S : \A y \in S : x <= y

\* ---------------------------------------------------------------- bounds
MaxBeam == 2
MaxEncLen == 3
\* Bound on the size of a run: vocab_size * batch_size * (the number of
\* slots with a finite score over all steps, beam_size * (steps - 1) + 1).
MaxWork == 12
\* Longest input of filter_seq2seq_output.
MaxSeqLen == 3
\* Most forward_step calls counted on one decoder.
MaxDecSteps == 2
\* Compared calls: vocabulary x batch x beam x steps.
MaxCompareWork == 8

BatchSizes == {1, 2}
VocabSizes == {2, 3}
\* Values a StepFunction log-probability takes.
LogProbs == {-2, -1}
\* max_decode_ratio: 0 and 1 as an int, 0.0 and 1.0 as a float.
MaxDecodeRatios == {0, 1}
RatioTypes == {"int", "float"}
\* min_decode_ratio in halves (0, 0.5, 1).
MinDecodeRatios2 == {0, 1, 2}
\* eos_threshold in halves (1.0, 1.5).
EosThresholds2 == {2, 3}
LengthPenalties == {0, 1}

\* -np.inf and minus_inf (-1e20).
NegInf == -1000000000
MinusInf == -1000000

VARIABLES
    cfg,              \* constructor arguments and input shape of the call
    pc,               \* position in the running forward
    t,                \* loop variable of forward
    inp_tokens,
    memory,
    sequence_scores,
    scores,           \* the values topk returned in the last step
    alived_seq,
    hyps_and_scores,
    log_probs,        \* StepFunction output of the last step (before masking)
    masked_log_probs, \* log_probs after the in-place masking of its eos column
    predecessors,
    predictions,
    top_scores,
    step_calls,       \* number of forward_step calls made
    g_run,            \* GreedySearcher: which of two successive forward calls
    g_log_probs_lst,
    g_table,          \* StepFunction answers given so far, by input
    g_first,          \* result of the first forward call
    f_in,             \* filter_seq2seq_output: the argument, with its type
    f_eos,            \* eos_id
    f_outs,           \* the lists returned so far, in call order
    f_pc,
    d_args,           \* AttentionalRNNDecoder: the constructor arguments
    d_self,           \* the attributes of the object
    d_last,           \* the last call made on it, and how it ended
    d_steps           \* forward_step calls that have returned

vars == <<cfg, pc, t, inp_tokens, memory, sequence_scores, scores, alived_seq,
          hyps_and_scores, log_probs, masked_log_probs, predecessors,
          predictions, top_scores, step_calls, g_run, g_log_probs_lst, g_table, g_first,
          f_in, f_eos, f_outs, f_pc, d_args, d_self, d_last, d_steps>>

beamVars == <<cfg, pc, t, inp_tokens, memory, sequence_scores, scores, alived_seq,
              hyps_and_scores, log_probs, masked_log_probs, predecessors,
              predictions, top_scores, step_calls>>
greedyVars == <<g_run, g_log_probs_lst, g_table, g_first>>
filterVars == <<f_in, f_eos, f_outs, f_pc>>
decVars == <<d_args, d_self, d_last, d_steps>>

\* ------------------------------------------------------------ arithmetic

\* Float addition on the model's values: -inf absorbs everything, and
\* -1e20 absorbs every finite score of the model (|x| far below its ulp).
FAdd(a, b) ==
    IF a = NegInf \/ b = NegInf THEN NegInf
    ELSE IF a = MinusInf \/ b = MinusInf THEN MinusInf
    ELSE a + b

\* ------------------------------------------------- filter_seq2seq_output
\* A filter that looks for the last eos instead of the first.
LastEos(string_pred, eos_id, i) ==
    IF \E k \in 1..Len(string_pred) : string_pred[k] = eos_id
    THEN Max({k \in 1..Len(string_pred) : string_pred[k] = eos_id}) - 1
    ELSE Len(string_pred)

\* next(i for i, v in enumerate(string_pred) if v == eos_id), or
\* len(string_pred) on StopIteration: 0-based index of the first eos.
RECURSIVE FirstEos(_, _, _)
FirstEos(string_pred, eos_id, i) ==
    IF i >= Len(string_pred) THEN Len(string_pred)
    ELSE IF string_pred[i + 1] = eos_id THEN i
    ELSE FirstEos(string_pred, eos_id, i + 1)

\* A filter that keeps the first eos: string_pred[:eos_index + 1].
filter_inclusive(string_pred, eos_id) ==
    SubSeq(string_pred, 1,
           IF FirstEos(string_pred, eos_id, 0) < Len(string_pred)
           THEN FirstEos(string_pred, eos_id, 0) + 1 ELSE Len(string_pred))

\* A filter that truncates nothing.
filter_none(string_pred, eos_id) == string_pred

\* string_pred[:eos_index]
filter_seq2seq_output(string_pred, eos_id) ==
    SubSeq(string_pred, 1, FirstEos(string_pred, eos_id, 0))

\* A check that lets every sequence type through.
IsSequence(arg) == arg.kind \in {"list", "tuple"}

\* isinstance(string_pred, list)
IsList(arg) == arg.kind = "list"

FilterTokens == {"a", "b", "eos"}
\* The argument of the docstring example.
DocExample == <<"a", "b", "c", "d", "eos", "e">>
SeqsUpTo(n) == UNION {[1..k -> FilterTokens] : k \in 0..n}

FilterInit ==
    /\ f_in \in [kind : {"list", "tuple", "tensor"},
                 items : SeqsUpTo(MaxSeqLen) \cup {DocExample}]
    /\ f_eos \in FilterTokens
    /\ f_outs = <<>>
    /\ f_pc = "ready"

\* The argument of the next call: the input, then the list just returned.
FilterArg ==
    IF f_outs = <<>> THEN f_in
    ELSE [kind |-> "list", items |-> f_outs[Len(f_outs)]]

\* A call of filter_seq2seq_output that returns.
FilterCall ==
    /\ f_pc \in {"ready", "returned"}
    /\ Len(f_outs) < 2
    /\ IsList(FilterArg)
    /\ f_outs' = Append(f_outs, filter_seq2seq_output(FilterArg.items, f_eos))
    /\ f_pc' = "returned"
    /\ UNCHANGED <<f_in, f_eos>>

\* raise ValueError("The input must be a list.")
FilterRaises ==
    /\ f_pc \in {"ready", "returned"}
    /\ Len(f_outs) < 2
    /\ ~IsList(FilterArg)
    /\ f_pc' = "error"
    /\ UNCHANGED <<f_in, f_eos, f_outs>>

\* ---------------------------------------------------- AttentionalRNNDecoder
RnnTypeArgs == {"rnn", "gru", "lstm", "LSTM", "ligru"}
AttnTypeArgs == {"content", "location", "Location", "keyvalue"}

\* str.lower() on the arguments of the model.
Lower(str) ==
    IF str = "LSTM" THEN "lstm" ELSE IF str = "Location" THEN "location" ELSE str

\* A check that lets every attention type through, as location-aware.
AttnImplementedAny(attn_type) == TRUE

\* if self.attn_type == "content": ... elif self.attn_type == "location":
AttnImplemented(attn_type) == attn_type \in {"content", "location"}

\* if self.rnn_type == "rnn": ... elif "gru": ... elif "lstm":
RnnImplemented(rnn_type) == rnn_type \in {"rnn", "gru", "lstm"}

DecoderInit ==
    /\ d_args \in [rnn_type : RnnTypeArgs, attn_type : AttnTypeArgs]
    /\ d_self = [made |-> FALSE, rnn_type |-> "", attn_type |-> "", attrs |-> {}]
    /\ d_last = [call |-> "none", raised |-> "none"]
    /\ d_steps = 0

\* AttentionalRNNDecoder.__init__: stores the lowered types and the sizes.
DecoderNew ==
    /\ ~d_self.made
    /\ d_self' = [made |-> TRUE, rnn_type |-> Lower(d_args.rnn_type),
                  attn_type |-> Lower(d_args.attn_type), attrs |-> {}]
    /\ d_last' = [call |-> "__init__", raised |-> "none"]
    /\ UNCHANGED <<d_args, d_steps>>

\* AttentionalRNNDecoder.init_params, which forward(init_params=True) runs
\* first: proj, then attn or ValueError, then drop, then rnn or ValueError.
DecoderInitParams ==
    /\ d_self.made
    /\ IF ~AttnImplemented(d_self.attn_type) THEN
           /\ d_self' = [d_self EXCEPT !.attrs = @ \cup {"proj"}]
           /\ d_last' = [call |-> "init_params", raised |-> "ValueError"]
       ELSE IF ~RnnImplemented(d_self.rnn_type) THEN
           /\ d_self' = [d_self EXCEPT !.attrs = @ \cup {"proj", "attn", "drop"}]
           /\ d_last' = [call |-> "init_params", raised |-> "ValueError"]
       ELSE
           /\ d_self' = [d_self EXCEPT !.attrs = {"proj", "attn", "drop", "rnn"}]
           /\ d_last' = [call |-> "init_params", raised |-> "none"]
    /\ UNCHANGED <<d_args, d_steps>>

\* AttentionalRNNDecoder.forward_step, called by forward and by the
\* searchers: it reads self.drop, self.rnn, self.attn and self.proj, and a
\* missing attribute raises AttributeError.
DecoderForwardStep ==
    /\ d_self.made
    /\ d_steps < MaxDecSteps
    /\ IF {"drop", "rnn", "attn", "proj"} \subseteq d_self.attrs THEN
           /\ d_steps' = d_steps + 1
           /\ d_last' = [call |-> "forward_step", raised |-> "none"]
       ELSE
           /\ d_steps' = d_steps
           /\ d_last' = [call |-> "forward_step", raised |-> "AttributeError"]
    /\ UNCHANGED <<d_args, d_self>>

\* RNNGreedySearcher.reset_mem / RNNBeamSearcher.reset_mem:
\* self.dec.attn.reset()
DecoderResetMem ==
    /\ d_self.made
    /\ d_last' = [call |-> "reset_mem",
                  raised |-> IF "attn" \in d_self.attrs THEN "none"
                             ELSE "AttributeError"]
    /\ UNCHANGED <<d_args, d_self, d_steps>>

DecoderIdle ==
    /\ d_args = [rnn_type |-> "lstm", attn_type |-> "content"]
    /\ d_self = [made |-> FALSE, rnn_type |-> "", attn_type |-> "", attrs |-> {}]
    /\ d_last = [call |-> "none", raised |-> "none"]
    /\ d_steps = 0

\* ------------------------------------------------------------ BeamSearcher
\* Constructor arguments (BeamSearcher.__init__) and the shape of the input.
batch_size == cfg.batch_size
beam_size == cfg.beam_size
vocab_size == cfg.vocab_size
bos_index == cfg.bos_index
eos_index == cfg.eos_index
length_penalty == cfg.length_penalty

Configs ==
    {c \in [batch_size : BatchSizes, beam_size : 1..MaxBeam,
            vocab_size : VocabSizes, bos_index : {0},
            eos_index : 0..(Max(VocabSizes) - 1), enc_len : 1..MaxEncLen,
            max_decode_ratio : MaxDecodeRatios, ratio_type : RatioTypes,
            min_decode_ratio2 : MinDecodeRatios2,
            eos_threshold2 : EosThresholds2,
            length_penalty : LengthPenalties] :
        /\ c.eos_index < c.vocab_size
        /\ c.min_decode_ratio2 <= 2 * c.max_decode_ratio
        /\ c.vocab_size * c.batch_size
              * (c.beam_size * (c.enc_len * c.max_decode_ratio - 1) + 1) <= MaxWork}

Slots == 0..(batch_size * beam_size - 1)
Examples == 0..(batch_size - 1)
Vocab == 0..(vocab_size - 1)

\* max_decode_steps = enc_states.shape[1] * self.max_decode_ratio
max_decode_steps == cfg.enc_len * cfg.max_decode_ratio

\* range(max_decode_steps) raises TypeError when max_decode_steps is a
\* float, which it is when max_decode_ratio is one.
RangeRaises == cfg.ratio_type = "float"

\* A comparison with the product rounded down.
BelowMinStepsFloor(tt) == tt < (cfg.enc_len * cfg.min_decode_ratio2) \div 2

\* t < min_decode_steps, with min_decode_steps = enc_states.shape[1] *
\* self.min_decode_ratio a float that is not rounded.
BelowMinSteps(tt) == 2 * tt < cfg.enc_len * cfg.min_decode_ratio2

\* An offset that takes every example for the first one.
beam_offset_none(i) == 0

\* beam_offset = torch.arange(batch_size) * self.beam_size
beam_offset(i) == i * beam_size

\* if t < min_decode_steps: log_probs[:, self.eos_index] = self.minus_inf
MaskMinSteps(row, tt) ==
    IF BelowMinSteps(tt) THEN [row EXCEPT ![eos_index] = MinusInf] ELSE row

\* max_probs, _ = torch.max(log_probs[:, : self.eos_index], dim=-1):
\* the maximum over the columns before eos_index only.
max_probs(row) == Max({row[v] : v \in 0..(eos_index - 1)})

\* A gate with the comparison turned round.
EosBelow(row) == 2 * row[eos_index] < cfg.eos_threshold2 * max_probs(row)

\* eos_probs > self.eos_threshold * max_probs
EosExceeds(row) == 2 * row[eos_index] > cfg.eos_threshold2 * max_probs(row)

\* log_probs[:, self.eos_index] = torch.where(eos_probs > ..., eos_probs,
\* minus_inf)
EosGate(row) ==
    IF EosExceeds(row) THEN row ELSE [row EXCEPT ![eos_index] = MinusInf]

\* Candidate scores with the sign of the log-probability lost.
CandScoresSubtracted(i, seq_scores, lp) ==
    [c \in 0..(beam_size * vocab_size - 1) |->
        LET p == lp[beam_offset(i) + (c \div vocab_size)][c % vocab_size]
        IN  FAdd(seq_scores[beam_offset(i) + (c \div vocab_size)],
                 IF p > MinusInf THEN -p ELSE p)]

\* scores = sequence_scores.unsqueeze(1).expand(-1, vocab_size) + log_probs,
\* viewed as (batch_size, beam_size * vocab_size): the row of example i.
CandScores(i, seq_scores, lp) ==
    [c \in 0..(beam_size * vocab_size - 1) |->
        FAdd(seq_scores[beam_offset(i) + (c \div vocab_size)],
             lp[beam_offset(i) + (c \div vocab_size)][c % vocab_size])]

\* torch.topk(k): k distinct indices, values in descending order, no value
\* left out larger than one taken; the order among equal values is whatever
\* the kernel produces.
TopK(sc, k) ==
    {sel \in [0..(k - 1) -> DOMAIN sc] :
        /\ \A a, b \in 0..(k - 1) : a # b => sel[a] # sel[b]
        /\ \A a \in 0..(k - 2) : sc[sel[a]] >= sc[sel[a + 1]]
        /\ \A c \in DOMAIN sc :
              (\A a \in 0..(k - 1) : sel[a] # c) => sc[c] <= sc[sel[k - 1]]}

\* forward_step of the recurrent adapter on the memory: the state of a slot
\* is what the tokens fed to it so far determine.
StepMemory(mem, inp) == [s \in DOMAIN mem |-> Append(mem[s], inp[s])]

\* A permutation that leaves the memory where it is.
permute_mem_none(mem, index) == mem

\* RNNBeamSearcher.permute_mem: torch.index_select(., index=index)
permute_mem(mem, index) == [s \in DOMAIN index |-> mem[index[s]]]

\* A length penalty on t instead of t + 1 tokens.
final_scores_short(score, tt) == FAdd(score, length_penalty * tt)

\* final_scores = sequence_scores[index].item()
\*                + self.length_penalty * (t + 1)
final_scores(score, tt) == FAdd(score, length_penalty * (tt + 1))

\* A recording loop that lets a completion replace the last recorded
\* hypothesis of a full list.
RECURSIVE KeepEosOverwrite(_, _, _, _, _, _)
KeepEosOverwrite(hyps, index, inp, seqs, seq_scores, tt) ==
    IF index >= batch_size * beam_size THEN hyps
    ELSE LET batch_id == index \div beam_size
             pair == [hyp |-> seqs[index],
                      score |-> FAdd(seq_scores[index], length_penalty * (tt + 1))]
         IN  IF inp[index] # eos_index THEN
                 KeepEosOverwrite(hyps, index + 1, inp, seqs, seq_scores, tt)
             ELSE IF Len(hyps[batch_id]) = beam_size THEN
                 KeepEosOverwrite([hyps EXCEPT ![batch_id][beam_size] = pair],
                                  index + 1, inp, seqs, seq_scores, tt)
             ELSE
                 KeepEosOverwrite([hyps EXCEPT ![batch_id] = Append(@, pair)],
                                  index + 1, inp, seqs, seq_scores, tt)

\* A recording loop without the capacity check.
RECURSIVE KeepEosNoCap(_, _, _, _, _, _)
KeepEosNoCap(hyps, index, inp, seqs, seq_scores, tt) ==
    IF index >= batch_size * beam_size THEN hyps
    ELSE IF inp[index] # eos_index THEN
        KeepEosNoCap(hyps, index + 1, inp, seqs, seq_scores, tt)
    ELSE
        KeepEosNoCap([hyps EXCEPT ![index \div beam_size] =
                         Append(@, [hyp |-> seqs[index],
                                    score |-> FAdd(seq_scores[index],
                                                   length_penalty * (tt + 1))])],
                     index + 1, inp, seqs, seq_scores, tt)

\* for index in eos_indices: ... hyps_and_scores[batch_id].append(...),
\* from slot `index` on, in ascending slot order.
RECURSIVE KeepEos(_, _, _, _, _, _)
KeepEos(hyps, index, inp, seqs, seq_scores, tt) ==
    IF index >= batch_size * beam_size THEN hyps
    ELSE LET batch_id == index \div beam_size
         IN  IF inp[index] # eos_index THEN
                 KeepEos(hyps, index + 1, inp, seqs, seq_scores, tt)
             ELSE IF Len(hyps[batch_id]) = beam_size THEN
                 KeepEos(hyps, index + 1, inp, seqs, seq_scores, tt)
             ELSE
                 KeepEos([hyps EXCEPT ![batch_id] =
                             Append(@, [hyp |-> seqs[index],
                                        score |-> final_scores(seq_scores[index], tt)])],
                         index + 1, inp, seqs, seq_scores, tt)

\* A block that also rewards the surviving slots for the token of the step.
BlockEosPenalised(seq_scores, inp) ==
    [s \in DOMAIN seq_scores |->
        IF inp[s] = eos_index THEN NegInf
        ELSE FAdd(seq_scores[s], length_penalty)]

\* sequence_scores.masked_fill_(is_eos, -np.inf)
BlockEos(seq_scores, inp) ==
    [s \in DOMAIN seq_scores |->
        IF inp[s] = eos_index THEN NegInf ELSE seq_scores[s]]

\* If fewer than beam_size hypotheses: add the first `remains` slots of the
\* example with score + length_penalty * max_decode_steps.
RECURSIVE Backfill(_, _, _)
Backfill(lst, i, j) ==
    IF Len(lst) >= beam_size \/ j >= beam_size THEN lst
    ELSE Backfill(Append(lst, [hyp |-> alived_seq[beam_offset(i) + j],
                               score |-> FAdd(sequence_scores[beam_offset(i) + j],
                                              length_penalty * max_decode_steps)]),
                  i, j + 1)

\* A backfill that also adds the length penalty of one token to the
\* hypotheses recorded during the loop.
AddTopScoredRescored(hyps, i) ==
    LET lst == IF Len(hyps[i]) < beam_size
               THEN hyps[i] \o SubSeq(Backfill(<<>>, i, 0), 1, beam_size - Len(hyps[i]))
               ELSE hyps[i]
    IN  [k \in 1..Len(lst) |-> [lst[k] EXCEPT !.score = FAdd(@, length_penalty)]]

\* hyps_and_scores[i] += list(zip(hyps, scores))[:remains], lines 332-344
AddTopScored(hyps, i) ==
    IF Len(hyps[i]) < beam_size
    THEN hyps[i] \o SubSeq(Backfill(<<>>, i, 0), 1, beam_size - Len(hyps[i]))
    ELSE hyps[i]

\* A selection that returns the last of the best-scored elements.
TopHypLast(lst) ==
    lst[CHOOSE k \in 1..Len(lst) :
            /\ \A m \in 1..Len(lst) : lst[m].score <= lst[k].score
            /\ \A m \in (k + 1)..Len(lst) : lst[m].score < lst[k].score]

\* max(hyps_and_scores[i], key=lambda pair: pair[1]): the first element of
\* the list with the largest score.
TopHyp(lst) ==
    lst[CHOOSE k \in 1..Len(lst) :
            /\ \A m \in 1..Len(lst) : lst[m].score <= lst[k].score
            /\ \A m \in 1..(k - 1) : lst[m].score < lst[k].score]

\* Running scores that let every slot of an example start alive.
InitScoresAllAlive(slots) == [s \in slots |-> 0]

\* sequence_scores = torch.empty(batch_size * beam_size).fill_(-np.inf)
\* sequence_scores.index_fill_(0, beam_offset, 0.0): only the first slot of
\* each example starts at 0.
InitScores(slots) == [s \in slots |-> IF s % beam_size = 0 THEN 0 ELSE NegInf]

\* The locals of forward before the first step of the loop.
BeamLocals ==
    /\ pc = "loop"
    /\ t = 0
    /\ inp_tokens = [s \in Slots |-> bos_index]
    /\ memory = [s \in Slots |-> <<>>]
    /\ sequence_scores = InitScores(Slots)
    /\ scores = <<>>
    /\ alived_seq = [s \in Slots |-> <<>>]
    /\ hyps_and_scores = [i \in Examples |-> <<>>]
    /\ log_probs = <<>>
    /\ masked_log_probs = <<>>
    /\ predecessors = <<>>
    /\ predictions = <<>>
    /\ top_scores = <<>>
    /\ step_calls = 0

BeamInit == cfg \in Configs /\ BeamLocals

\* A beam wider than the vocabulary: more slots than one live hypothesis
\* has continuations.
WideConfigs ==
    {c \in [batch_size : {1}, beam_size : {Min(VocabSizes) + 1},
            vocab_size : {Min(VocabSizes)}, bos_index : {0},
            eos_index : 0..(Min(VocabSizes) - 1), enc_len : 1..MaxEncLen,
            max_decode_ratio : MaxDecodeRatios, ratio_type : RatioTypes,
            min_decode_ratio2 : MinDecodeRatios2,
            eos_threshold2 : EosThresholds2,
            length_penalty : LengthPenalties] :
        /\ c.min_decode_ratio2 <= 2 * c.max_decode_ratio
        /\ c.vocab_size * c.batch_size
              * (c.beam_size * (c.enc_len * c.max_decode_ratio - 1) + 1) <= MaxWork}

BeamInitWide == cfg \in WideConfigs /\ BeamLocals

\* The rows forward_step may return. A slot whose running score is -inf
\* adds -inf to every column, so its row decides nothing: one row stands
\* for all of them.
StepRows(seq_scores) ==
    LET finite == {s \in Slots : seq_scores[s] # NegInf}
    IN  {[s \in Slots |-> IF s \in finite THEN rows[s]
                          ELSE [v \in Vocab |-> Max(LogProbs)]] :
            rows \in [finite -> [Vocab -> LogProbs]]}

\* The results topk may give for examples i, i+1, ...: one selection each.
RECURSIVE TopKBatch(_, _)
TopKBatch(i, gated) ==
    IF i >= batch_size THEN {<<>>}
    ELSE {<<sel>> \o rest :
            sel \in TopK(CandScores(i, sequence_scores, gated), beam_size),
            rest \in TopKBatch(i + 1, gated)}

\* One iteration of `for t in range(max_decode_steps)`.
BeamStep ==
    /\ pc = "loop"
    /\ ~RangeRaises
    /\ t < max_decode_steps
    /\ eos_index > 0
    /\ \E lp \in StepRows(sequence_scores) :
        LET mem1 == StepMemory(memory, inp_tokens)
            gated == [s \in Slots |-> EosGate(MaskMinSteps(lp[s], t))]
        IN  \E topk \in TopKBatch(0, gated) :
            LET candidates == [s \in Slots |-> topk[(s \div beam_size) + 1][s % beam_size]]
                inp == [s \in Slots |-> candidates[s] % vocab_size]
                kept == [s \in Slots |->
                              CandScores(s \div beam_size, sequence_scores, gated)
                                  [candidates[s]]]
                pred == [s \in Slots |->
                              candidates[s] \div vocab_size
                              + beam_offset(s \div beam_size)]
                seqs == [s \in Slots |-> Append(alived_seq[pred[s]], inp[s])]
            IN  /\ log_probs' = lp
                /\ masked_log_probs' = gated
                /\ inp_tokens' = inp
                /\ predecessors' = pred
                /\ memory' = permute_mem(mem1, pred)
                /\ alived_seq' = seqs
                /\ scores' = kept
                /\ hyps_and_scores' = KeepEos(hyps_and_scores, 0, inp, seqs, kept, t)
                /\ sequence_scores' = BlockEos(kept, inp)
    /\ t' = t + 1
    /\ step_calls' = step_calls + 1
    /\ UNCHANGED <<cfg, pc, predictions, top_scores>>

\* torch.max over the empty slice log_probs[:, :0] raises: forward ends with
\* the error, after the forward_step call of the iteration.
BeamStepRaises ==
    /\ pc = "loop"
    /\ ~RangeRaises
    /\ t < max_decode_steps
    /\ eos_index = 0
    /\ pc' = "error"
    /\ step_calls' = step_calls + 1
    /\ UNCHANGED <<cfg, t, inp_tokens, memory, sequence_scores, scores, alived_seq,
                   hyps_and_scores, log_probs, masked_log_probs, predecessors,
                   predictions,
                   top_scores>>

\* The frame of a forward call that an exception leaves: its locals are gone.
Unwind ==
    /\ t' = 0
    /\ inp_tokens' = <<>>
    /\ memory' = <<>>
    /\ sequence_scores' = <<>>
    /\ scores' = <<>>
    /\ alived_seq' = <<>>
    /\ hyps_and_scores' = <<>>
    /\ log_probs' = <<>>
    /\ masked_log_probs' = <<>>
    /\ predecessors' = <<>>

\* A loop that catches the failure and returns the best slot of each example.
BeamStepSalvages ==
    /\ pc = "loop"
    /\ ~RangeRaises
    /\ t < max_decode_steps
    /\ pc' = "failed"
    /\ step_calls' = step_calls + 1
    /\ Unwind
    /\ predictions' = [i \in Examples |-> alived_seq[beam_offset(i)]]
    /\ top_scores' = [i \in Examples |-> sequence_scores[beam_offset(i)]]
    /\ UNCHANGED cfg

\* self.forward_step(...) raises in an iteration of the loop: nothing in
\* forward catches it.
BeamStepFails ==
    /\ pc = "loop"
    /\ ~RangeRaises
    /\ t < max_decode_steps
    /\ pc' = "failed"
    /\ step_calls' = step_calls + 1
    /\ Unwind
    /\ UNCHANGED <<cfg, predictions, top_scores>>

\* for t in range(max_decode_steps): TypeError on a float.
BeamRangeRaises ==
    /\ pc = "loop"
    /\ RangeRaises
    /\ pc' = "error"
    /\ UNCHANGED <<cfg, t, inp_tokens, memory, sequence_scores, scores, alived_seq,
                   hyps_and_scores, log_probs, masked_log_probs, predecessors,
                   predictions, top_scores, step_calls>>

\* After the loop: backfill, pick the best of each example, filter.
BeamFinalize ==
    /\ pc = "loop"
    /\ ~RangeRaises
    /\ t = max_decode_steps
    /\ LET full == [i \in Examples |-> AddTopScored(hyps_and_scores, i)]
       IN  /\ hyps_and_scores' = full
           /\ predictions' = [i \in Examples |->
                                 filter_seq2seq_output(TopHyp(full[i]).hyp, eos_index)]
           /\ top_scores' = [i \in Examples |-> TopHyp(full[i]).score]
    /\ pc' = "done"
    /\ UNCHANGED <<cfg, t, inp_tokens, memory, sequence_scores, scores, alived_seq,
                   log_probs, masked_log_probs, predecessors, step_calls>>

\* ---------------------------------------------------------- GreedySearcher
\* An arg-max that leaves the last column out.
ArgMaxSkipLast(row, tie) ==
    LET cols == DOMAIN row \ {Max(DOMAIN row)}
        best == Max({row[v] : v \in cols})
        at == {v \in cols : row[v] = best}
    IN  IF tie = "first" THEN CHOOSE v \in at : \A w \in at : v <= w
        ELSE CHOOSE v \in at : \A w \in at : w <= v

\* The index torch.argmax / torch.max(dim) returns: that of a maximal value,
\* the first or the last of them as the kernel has it.
ArgMax(row, tie) ==
    LET best == Max({row[v] : v \in DOMAIN row})
        at == {v \in DOMAIN row : row[v] = best}
    IN  IF tie = "first" THEN CHOOSE v \in at : \A w \in at : v <= w
        ELSE CHOOSE v \in at : \A w \in at : w <= v

RECURSIVE SumSeq(_)
SumSeq(q) == IF q = <<>> THEN 0 ELSE q[1] + SumSeq(Tail(q))

GreedyConfigs ==
    {c \in [batch_size : BatchSizes, vocab_size : VocabSizes, bos_index : {0},
            eos_index : 0..(Max(VocabSizes) - 1), enc_len : 1..MaxEncLen,
            max_decode_ratio : MaxDecodeRatios, ratio_type : RatioTypes,
            argmax_tie : {"first", "last"}, max_tie : {"first", "last"}] :
        /\ c.eos_index < c.vocab_size
        /\ c.vocab_size * c.batch_size * c.enc_len * c.max_decode_ratio <= MaxWork}

\* A reset that keeps the memory of the previous call when there is one.
reset_mem_stale == IF memory = <<>> THEN [i \in Examples |-> <<>>] ELSE memory

\* RNNGreedySearcher.reset_mem: a fresh memory for every example.
reset_mem == [i \in Examples |-> <<>>]

GreedyInit ==
    /\ cfg \in GreedyConfigs
    /\ pc = "idle"
    /\ t = 0
    /\ inp_tokens = <<>>
    /\ memory = <<>>
    /\ sequence_scores = <<>>
    /\ scores = <<>>
    /\ alived_seq = <<>>
    /\ hyps_and_scores = <<>>
    /\ log_probs = <<>>
    /\ masked_log_probs = <<>>
    /\ predecessors = <<>>
    /\ predictions = <<>>
    /\ top_scores = <<>>
    /\ step_calls = 0
    /\ g_run = 0
    /\ g_log_probs_lst = <<>>
    /\ g_table = {}
    /\ g_first = <<>>

\* forward is called (twice in a row, on the same enc_states and wav_len):
\* the statements before the loop.
GreedyCall ==
    /\ pc \in {"idle", "returned"}
    /\ g_run < 2
    /\ g_run' = g_run + 1
    /\ memory' = reset_mem
    /\ inp_tokens' = [i \in Examples |-> bos_index]
    /\ g_log_probs_lst' = <<>>
    /\ t' = 0
    /\ pc' = "loop"
    /\ UNCHANGED <<cfg, sequence_scores, scores, alived_seq, hyps_and_scores, log_probs,
                   masked_log_probs, predecessors, predictions, top_scores, step_calls,
                   g_table, g_first>>

\* The rows a StepFunction that answers equal inputs equally may return on
\* the input `key`: the answer it gave before, or any rows on a new input.
StepAnswers(key) ==
    IF \E e \in g_table : e.key = key
    THEN {(CHOOSE e \in g_table : e.key = key).rows}
    ELSE [Examples -> [Vocab -> LogProbs]]

\* One iteration of `for t in range(max_decode_steps)`.
GreedyStep ==
    /\ pc = "loop"
    /\ ~RangeRaises
    /\ t < max_decode_steps
    /\ LET mem1 == StepMemory(memory, inp_tokens)
       IN  \E lp \in StepAnswers(mem1) :
            /\ memory' = mem1
            /\ g_table' = g_table \cup {[key |-> mem1, rows |-> lp]}
            /\ g_log_probs_lst' = Append(g_log_probs_lst, lp)
            /\ log_probs' = lp
            /\ inp_tokens' = [i \in Examples |-> ArgMax(lp[i], cfg.argmax_tie)]
    /\ t' = t + 1
    /\ step_calls' = step_calls + 1
    /\ UNCHANGED <<cfg, pc, sequence_scores, scores, alived_seq, hyps_and_scores,
                   masked_log_probs, predecessors, predictions, top_scores, g_run, g_first>>

\* scores, predictions = log_probs.max(dim=-1); scores.sum(dim=1);
\* batch_filter_seq2seq_output(predictions, eos_id=self.eos_index)
GreedyPredictions ==
    [i \in Examples |->
        filter_seq2seq_output(
            [k \in 1..Len(g_log_probs_lst) |->
                ArgMax(g_log_probs_lst[k][i], cfg.max_tie)],
            eos_index)]

\* A score that stops at the first eos, as the returned tokens do.
GreedyScoresBeforeEos ==
    [i \in Examples |->
        SumSeq([k \in 1..Len(GreedyPredictions[i]) |->
                   Max({g_log_probs_lst[k][i][v] : v \in Vocab})])]

GreedyScores ==
    [i \in Examples |->
        SumSeq([k \in 1..Len(g_log_probs_lst) |->
                   Max({g_log_probs_lst[k][i][v] : v \in Vocab})])]

\* After the loop: stack, max, sum, filter, return.
GreedyReturn ==
    /\ pc = "loop"
    /\ ~RangeRaises
    /\ t = max_decode_steps
    /\ g_log_probs_lst # <<>>
    /\ predictions' = GreedyPredictions
    /\ top_scores' = GreedyScores
    /\ g_first' = IF g_run = 1 THEN <<GreedyPredictions, GreedyScores>> ELSE g_first
    /\ pc' = "returned"
    /\ UNCHANGED <<cfg, t, inp_tokens, memory, sequence_scores, scores, alived_seq,
                   hyps_and_scores, log_probs, masked_log_probs, predecessors,
                   step_calls, g_run, g_log_probs_lst, g_table>>

\* self.forward_step(...) raises in an iteration of the loop: nothing in
\* forward catches it.
GreedyStepFails ==
    /\ pc = "loop"
    /\ ~RangeRaises
    /\ t < max_decode_steps
    /\ pc' = "failed"
    /\ step_calls' = step_calls + 1
    /\ Unwind
    /\ g_log_probs_lst' = <<>>
    /\ UNCHANGED <<cfg, predictions, top_scores, g_run, g_table, g_first>>

\* for t in range(max_decode_steps): TypeError on a float.
GreedyRangeRaises ==
    /\ pc = "loop"
    /\ RangeRaises
    /\ pc' = "error"
    /\ UNCHANGED <<cfg, t, inp_tokens, memory, sequence_scores, scores, alived_seq,
                   hyps_and_scores, log_probs, masked_log_probs, predecessors,
                   predictions, top_scores, step_calls, g_run, g_log_probs_lst,
                   g_table, g_first>>

\* torch.stack of an empty list raises (max_decode_steps = 0).
GreedyRaises ==
    /\ pc = "loop"
    /\ ~RangeRaises
    /\ t = max_decode_steps
    /\ g_log_probs_lst = <<>>
    /\ pc' = "error"
    /\ UNCHANGED <<cfg, t, inp_tokens, memory, sequence_scores, scores, alived_seq,
                   hyps_and_scores, log_probs, masked_log_probs, predecessors,
                   predictions,
                   top_scores, step_calls, g_run, g_log_probs_lst, g_table,
                   g_first>>

GreedyIdle ==
    /\ g_run = 0
    /\ g_log_probs_lst = <<>>
    /\ g_table = {}
    /\ g_first = <<>>

FilterIdle ==
    /\ f_in = [kind |-> "list", items |-> <<>>]
    /\ f_eos = "eos"
    /\ f_outs = <<>>
    /\ f_pc = "idle"

BeamIdle ==
    /\ cfg = CHOOSE c \in Configs : TRUE
    /\ pc = "idle"
    /\ t = 0
    /\ inp_tokens = <<>>
    /\ memory = <<>>
    /\ sequence_scores = <<>>
    /\ scores = <<>>
    /\ alived_seq = <<>>
    /\ hyps_and_scores = <<>>
    /\ log_probs = <<>>
    /\ masked_log_probs = <<>>
    /\ predecessors = <<>>
    /\ predictions = <<>>
    /\ top_scores = <<>>
    /\ step_calls = 0

\* BeamSearcher.forward
Init == BeamInit /\ GreedyIdle /\ FilterIdle /\ DecoderIdle

Next ==
    \/ BeamStep /\ UNCHANGED <<greedyVars, filterVars, decVars>>
    \/ BeamStepRaises /\ UNCHANGED <<greedyVars, filterVars, decVars>>
    \/ BeamFinalize /\ UNCHANGED <<greedyVars, filterVars, decVars>>
    \/ BeamStepFails /\ UNCHANGED <<greedyVars, filterVars, decVars>>
    \/ BeamRangeRaises /\ UNCHANGED <<greedyVars, filterVars, decVars>>

Spec == Init /\ [][Next]_vars

\* BeamSearcher.forward with a beam wider than the vocabulary
InitWide == BeamInitWide /\ GreedyIdle /\ FilterIdle /\ DecoderIdle

SpecWide == InitWide /\ [][Next]_vars

\* filter_seq2seq_output
InitFilter == FilterInit /\ BeamIdle /\ GreedyIdle /\ DecoderIdle

NextFilter ==
    \/ FilterCall /\ UNCHANGED <<beamVars, greedyVars, decVars>>
    \/ FilterRaises /\ UNCHANGED <<beamVars, greedyVars, decVars>>

SpecFilter == InitFilter /\ [][NextFilter]_vars

\* GreedySearcher.forward, called twice
InitGreedy == GreedyInit /\ FilterIdle /\ DecoderIdle

NextGreedy ==
    \/ GreedyCall /\ UNCHANGED <<filterVars, decVars>>
    \/ GreedyStep /\ UNCHANGED <<filterVars, decVars>>
    \/ GreedyReturn /\ UNCHANGED <<filterVars, decVars>>
    \/ GreedyRaises /\ UNCHANGED <<filterVars, decVars>>
    \/ GreedyStepFails /\ UNCHANGED <<filterVars, decVars>>
    \/ GreedyRangeRaises /\ UNCHANGED <<filterVars, decVars>>

SpecGreedy == InitGreedy /\ [][NextGreedy]_vars

\* A forward call of either searcher. The states of the greedy searcher are
\* those before its first call and those of a call (g_run counts them).
IsGreedy == pc = "idle" \/ g_run >= 1

InitDecode == Init \/ InitGreedy

NextDecode ==
    \/ ~IsGreedy /\ Next
    \/ IsGreedy /\ NextGreedy

SpecDecode == InitDecode /\ [][NextDecode]_vars

\* AttentionalRNNDecoder: construction, parameter initialization and steps
InitDecoder == DecoderInit /\ BeamIdle /\ GreedyIdle /\ FilterIdle

NextDecoder ==
    \/ DecoderNew /\ UNCHANGED <<beamVars, greedyVars, filterVars>>
    \/ DecoderInitParams /\ UNCHANGED <<beamVars, greedyVars, filterVars>>
    \/ DecoderForwardStep /\ UNCHANGED <<beamVars, greedyVars, filterVars>>
    \/ DecoderResetMem /\ UNCHANGED <<beamVars, greedyVars, filterVars>>

SpecDecoder == InitDecoder /\ [][NextDecoder]_vars

\* GreedySearcher.forward and then BeamSearcher.forward, built on the same
\* modules (the same StepFunction, bos, eos and ratios) and called on the
\* same enc_states and wav_len.
CompareConfigs ==
    {c \in [batch_size : BatchSizes, beam_size : 1..MaxBeam,
            vocab_size : VocabSizes, bos_index : {0},
            eos_index : 0..(Max(VocabSizes) - 1), enc_len : 1..MaxEncLen,
            max_decode_ratio : MaxDecodeRatios, ratio_type : RatioTypes,
            min_decode_ratio2 : MinDecodeRatios2,
            eos_threshold2 : EosThresholds2,
            length_penalty : LengthPenalties,
            argmax_tie : {"first"}, max_tie : {"first"}] :
        /\ c.eos_index < c.vocab_size
        /\ c.min_decode_ratio2 <= 2 * c.max_decode_ratio
        /\ c.vocab_size * c.batch_size * c.beam_size
              * c.enc_len * c.max_decode_ratio <= MaxCompareWork}

\* The locals of BeamSearcher.forward exist.
BeamCalled == sequence_scores # <<>>

\* BeamSearcher.forward is called after GreedySearcher.forward returned:
\* the statements before the loop.
BeamCall ==
    /\ pc = "returned"
    /\ ~BeamCalled
    /\ pc' = "loop"
    /\ t' = 0
    /\ inp_tokens' = [s \in Slots |-> bos_index]
    /\ memory' = [s \in Slots |-> <<>>]
    /\ sequence_scores' = InitScores(Slots)
    /\ scores' = <<>>
    /\ alived_seq' = [s \in Slots |-> <<>>]
    /\ hyps_and_scores' = [i \in Examples |-> <<>>]
    /\ log_probs' = <<>>
    /\ masked_log_probs' = <<>>
    /\ predecessors' = <<>>
    /\ predictions' = <<>>
    /\ top_scores' = <<>>
    /\ step_calls' = 0
    /\ UNCHANGED <<cfg, greedyVars>>

\* The StepFunction is the one the greedy call used: on the encoder states
\* of an example and a memory it has answered before, it answers the same.
SameStepFunction ==
    \A s \in Slots :
        sequence_scores[s] # NegInf =>
            \A e \in g_table :
                e.key[s \div beam_size] = Append(memory[s], inp_tokens[s])
                    => log_probs'[s] = e.rows[s \div beam_size]

InitCompare ==
    /\ GreedyIdle
    /\ FilterIdle
    /\ DecoderIdle
    /\ cfg \in CompareConfigs
    /\ pc = "idle"
    /\ t = 0
    /\ inp_tokens = <<>>
    /\ memory = <<>>
    /\ sequence_scores = <<>>
    /\ scores = <<>>
    /\ alived_seq = <<>>
    /\ hyps_and_scores = <<>>
    /\ log_probs = <<>>
    /\ masked_log_probs = <<>>
    /\ predecessors = <<>>
    /\ predictions = <<>>
    /\ top_scores = <<>>
    /\ step_calls = 0

NextCompare ==
    \/ g_run = 0 /\ GreedyCall /\ UNCHANGED <<filterVars, decVars>>
    \/ ~BeamCalled /\ GreedyStep /\ UNCHANGED <<filterVars, decVars>>
    \/ ~BeamCalled /\ GreedyReturn /\ UNCHANGED <<filterVars, decVars>>
    \/ ~BeamCalled /\ GreedyRaises /\ UNCHANGED <<filterVars, decVars>>
    \/ ~BeamCalled /\ GreedyRangeRaises /\ UNCHANGED <<filterVars, decVars>>
    \/ BeamCall /\ UNCHANGED <<filterVars, decVars>>
    \/ BeamCalled /\ BeamStep /\ SameStepFunction
          /\ UNCHANGED <<greedyVars, filterVars, decVars>>
    \/ BeamCalled /\ BeamStepRaises /\ UNCHANGED <<greedyVars, filterVars, decVars>>
    \/ BeamCalled /\ BeamFinalize /\ UNCHANGED <<greedyVars, filterVars, decVars>>

SpecCompare == InitCompare /\ [][NextCompare]_vars

\* ================================================================ claims
SlotsOf(i) == {s \in Slots : s \div beam_size = i}
HasEos(seq) == \E k \in 1..Len(seq) : seq[k] = eos_index

\* C1: after every decoding step each example holds exactly beam_size
\* retained candidates (beam_size slots, chosen from beam_size distinct
\* (predecessor, token) candidates), and its retired list never holds more
\* than beam_size hypotheses.
BeamWidthInvariant ==
    pc # "failed" => \A i \in Examples :
        /\ Len(hyps_and_scores[i]) <= beam_size
        /\ t > 0 =>
            /\ Cardinality({s \in DOMAIN inp_tokens : s \div beam_size = i}) = beam_size
            /\ Cardinality({<<predecessors[s], inp_tokens[s]>> : s \in SlotsOf(i)})
                  = beam_size

\* C1 witness: in a beam of two, an example whose retired list is full while
\* one of its slots has just emitted eos with a finite score and a
\* hypothesis that was not recorded.
BeamWidthWitness ==
    /\ pc = "loop"
    /\ t > 0
    /\ beam_size = 2
    /\ \E i \in Examples : \E s \in SlotsOf(i) :
        /\ Len(hyps_and_scores[i]) = beam_size
        /\ inp_tokens[s] = eos_index
        /\ scores[s] > MinusInf
        /\ \A k \in 1..beam_size : hyps_and_scores[i][k].hyp # alived_seq[s]

\* min_decode_steps as the specification has it: floor(T * min_decode_ratio).
MinDecodeStepsFloor == (cfg.enc_len * cfg.min_decode_ratio2) \div 2

\* C2: with min_decode_ratio > 0, no hypothesis is recorded in a retired
\* list at a step t < min_decode_steps (a hypothesis recorded at step t has
\* t + 1 tokens).
NoRetireBeforeMinSteps ==
    (pc = "loop" /\ cfg.min_decode_ratio2 > 0) =>
        \A i \in Examples : \A k \in 1..Len(hyps_and_scores[i]) :
            Len(hyps_and_scores[i][k].hyp) - 1 >= MinDecodeStepsFloor

\* The maximum of the non-eos log-probabilities of a row.
MaxOthers(row) == Max({row[v] : v \in Vocab \ {eos_index}})

\* C3: with eos_threshold >= 1, eos is never the chosen token of a retained
\* candidate whose predecessor's eos log-probability does not exceed
\* eos_threshold times the maximum of its other log-probabilities.
EosNeverChosenBelowThreshold ==
    (pc = "loop" /\ t > 0 /\ cfg.eos_threshold2 >= 2) =>
        \A s \in Slots :
            inp_tokens[s] = eos_index =>
                2 * log_probs[predecessors[s]][eos_index]
                    > cfg.eos_threshold2 * MaxOthers(log_probs[predecessors[s]])

\* C4: forward returns one token sequence and one score per example, and no
\* returned sequence contains eos.
OnePredictionPerExample ==
    pc = "done" =>
        /\ DOMAIN predictions = Examples
        /\ DOMAIN top_scores = Examples
        /\ \A i \in Examples : ~HasEos(predictions[i])

\* C4 witness: a batch of two examples has returned, and the best hypothesis
\* of one of them ended in eos, which the returned sequence lacks.
OnePredictionWitness ==
    /\ pc = "done"
    /\ batch_size = 2
    /\ \E i \in Examples : \E k \in 1..Len(hyps_and_scores[i]) :
        /\ hyps_and_scores[i][k].score = top_scores[i]
        /\ hyps_and_scores[i][k].hyp = Append(predictions[i], eos_index)
        /\ Len(predictions[i]) >= 1

\* beam_size = 1, min_decode_ratio = 0, eos_threshold = 1.0
GreedyLikeCfg ==
    beam_size = 1 /\ cfg.min_decode_ratio2 = 0 /\ cfg.eos_threshold2 = 2

\* One transition of a beam of one slot per example. A step at which the
\* best log-probability is not that of eos appends a best non-eos token and
\* adds its log-probability to the running score, recording nothing; a step
\* at which eos is strictly best records the history with eos appended and
\* the score running + eosTerm * log_probs[eos] + length_penalty * (t + 1);
\* finalization returns the recorded history without its eos, and its score.
BeamOneTransition(eosTerm) ==
    (GreedyLikeCfg /\ pc = "loop") =>
        \A i \in Examples :
            /\ (t' = t + 1 /\ sequence_scores[i] # NegInf) =>
                LET row == log_probs'[i]
                    best == Max({row[v] : v \in Vocab})
                    tok == inp_tokens'[i]
                IN  /\ row[eos_index] < best =>
                        /\ tok # eos_index
                        /\ row[tok] = best
                        /\ alived_seq'[i] = Append(alived_seq[i], tok)
                        /\ sequence_scores'[i] = sequence_scores[i] + best
                        /\ hyps_and_scores'[i] = <<>>
                    /\ (\A v \in Vocab \ {eos_index} : row[v] < row[eos_index]) =>
                        hyps_and_scores'[i] =
                            <<[hyp |-> Append(alived_seq[i], eos_index),
                               score |-> sequence_scores[i]
                                         + eosTerm * row[eos_index]
                                         + length_penalty * (t + 1)]>>
            /\ (pc' = "done" /\ hyps_and_scores[i] # <<>>) =>
                /\ Append(predictions'[i], eos_index) = hyps_and_scores[i][1].hyp
                /\ top_scores'[i] = hyps_and_scores[i][1].score

\* C5 (as amended): with beam_size = 1, min_decode_ratio = 0 and
\* eos_threshold = 1.0, while the best log-probability of each step goes to
\* a non-eos token the beam follows those tokens, and when eos is best at
\* step k the output is the k tokens chosen before, with score the sum of
\* the log-probabilities of the k chosen tokens plus the log-probability of
\* eos at step k plus length_penalty * (k + 1).
BeamOneScoreIncludesEos == [][BeamOneTransition(1)]_vars

\* C5 as stated: the score is the sum of the log-probabilities of the k
\* chosen non-eos tokens plus length_penalty * (k + 1), without the
\* log-probability of eos.
BeamOneScoreOfTokensOnly == [][BeamOneTransition(0)]_vars

\* C5 witness: the scenario of the specification: three steps, two non-eos
\* tokens then eos, returned as the two tokens.
BeamOneWitness ==
    /\ pc = "done"
    /\ GreedyLikeCfg
    /\ max_decode_steps = 3
    /\ length_penalty = 1
    /\ eos_index = 2
    /\ predictions[0] = <<1, 1>>
    /\ hyps_and_scores[0][1].hyp = <<1, 1, 2>>
    /\ top_scores[0] = hyps_and_scores[0][1].score
    /\ top_scores[0] > MinusInf

\* The candidates of example i at finalization: the hypotheses retired in
\* the loop, in recording order, then the example's first slots in slot
\* order, up to beam_size candidates.
FinalCandidates(i) ==
    [k \in 1..beam_size |->
        IF k <= Len(hyps_and_scores[i]) THEN hyps_and_scores[i][k]
        ELSE LET s == beam_offset(i) + (k - Len(hyps_and_scores[i]) - 1)
             IN  [hyp |-> alived_seq[s],
                  score |-> FAdd(sequence_scores[s],
                                 length_penalty * max_decode_steps)]]

\* C6: finalization returns, for each example, the candidate of maximum
\* final score among the retired and the backfilled hypotheses, and among
\* candidates of equal maximum score the first in iteration order.
FinalPicksFirstMax ==
    [][(pc = "loop" /\ pc' = "done") =>
        \A i \in Examples :
            \E k \in 1..beam_size :
                /\ top_scores'[i] = FinalCandidates(i)[k].score
                /\ predictions'[i] =
                      filter_seq2seq_output(FinalCandidates(i)[k].hyp, eos_index)
                /\ \A m \in 1..beam_size :
                      FinalCandidates(i)[m].score <= FinalCandidates(i)[k].score
                /\ \A m \in 1..(k - 1) :
                      FinalCandidates(i)[m].score < FinalCandidates(i)[k].score]_vars

\* C6 witness: forward has returned for a beam of two whose two candidates
\* had the same finite score and different token sequences; the first was
\* returned.
FinalTieWitness ==
    /\ pc = "done"
    /\ beam_size = 2
    /\ \E i \in Examples :
        /\ hyps_and_scores[i][1].score = hyps_and_scores[i][2].score
        /\ hyps_and_scores[i][1].score > MinusInf
        /\ filter_seq2seq_output(hyps_and_scores[i][1].hyp, eos_index)
              # filter_seq2seq_output(hyps_and_scores[i][2].hyp, eos_index)
        /\ predictions[i] = filter_seq2seq_output(hyps_and_scores[i][1].hyp, eos_index)

\* C7: filter_seq2seq_output returns the prefix of its argument strictly
\* before the first eos_id, and the whole argument when it holds no eos_id;
\* the docstring example gives <<a, b, c, d>>.
FilterReturnsPrefix ==
    f_outs # <<>> =>
        LET out == f_outs[1]
            arg == f_in.items
        IN  /\ Len(out) <= Len(arg)
            /\ \A k \in 1..Len(out) : out[k] = arg[k] /\ out[k] # f_eos
            /\ Len(out) < Len(arg) => arg[Len(out) + 1] = f_eos
            /\ (arg = DocExample /\ f_eos = "eos") => out = <<"a", "b", "c", "d">>

\* C7 witness: the docstring example has been filtered.
FilterPrefixWitness ==
    /\ f_in.items = DocExample
    /\ f_eos = "eos"
    /\ f_pc = "returned"
    /\ f_outs[1] = <<"a", "b", "c", "d">>

\* C8: filtering a filtered list returns it unchanged, a filtered list holds
\* no eos_id, and a list without eos_id is returned unchanged.
FilterIdempotent ==
    /\ f_outs # <<>> =>
        /\ \A k \in 1..Len(f_outs[1]) : f_outs[1][k] # f_eos
        /\ (\A k \in 1..Len(f_in.items) : f_in.items[k] # f_eos) =>
              f_outs[1] = f_in.items
    /\ Len(f_outs) = 2 => f_outs[2] = f_outs[1]

\* C8 witness: a list with two eos_id has been filtered twice, the first
\* pass having cut it.
FilterIdempotentWitness ==
    /\ Len(f_outs) = 2
    /\ Len(f_outs[1]) >= 1
    /\ Cardinality({k \in 1..Len(f_in.items) : f_in.items[k] = f_eos}) = 2
    /\ f_outs[2] = f_outs[1]

\* C9: an argument that is not a list makes the call fail at once and
\* return nothing; only such an argument makes it fail.
FilterRejectsNonList ==
    /\ f_in.kind # "list" => (f_outs = <<>> /\ f_pc \in {"ready", "error"})
    /\ f_pc = "error" => (f_in.kind # "list" /\ f_outs = <<>>)
    /\ f_pc = "returned" => f_in.kind = "list"

\* C9 witness: a tuple that holds an eos_id after other items was rejected.
FilterRejectsWitness ==
    /\ f_pc = "error"
    /\ f_in.kind = "tuple"
    /\ Len(f_in.items) >= 2
    /\ f_in.items[2] = f_eos
    /\ f_outs = <<>>

\* C10: two successive forward calls of the greedy searcher on the same
\* input, with a StepFunction that answers equal inputs equally, return the
\* same token sequences and the same scores.
GreedyDeterministic ==
    (pc = "returned" /\ g_run = 2) => <<predictions, top_scores>> = g_first

\* C10 witness: the second call has returned for a batch of two, after two
\* steps or more, one of which had two maximal log-probabilities.
GreedyDeterministicWitness ==
    /\ pc = "returned"
    /\ g_run = 2
    /\ batch_size = 2
    /\ Len(g_log_probs_lst) >= 2
    /\ \E k \in 1..Len(g_log_probs_lst) : \E i \in Examples :
          \A v \in Vocab : g_log_probs_lst[k][i][v] = Max(LogProbs)
    /\ \E i \in Examples : Len(predictions[i]) >= 1

\* C11: a forward call of the greedy searcher makes one StepFunction call
\* per step of the loop, for the whole batch, and has made exactly
\* floor(encoder_time_steps * max_decode_ratio) of them when it ends,
\* whatever tokens were chosen (step_calls counts over the calls of forward
\* made so far, g_run of them).
GreedyCallsFixedBudget ==
    /\ pc = "loop" => step_calls = (g_run - 1) * max_decode_steps + t
    /\ pc \in {"returned", "error"} => step_calls = g_run * max_decode_steps

\* The token sequences that hold an arg-max token of every step of example i.
ArgMaxTokens(i) ==
    {toks \in [1..Len(g_log_probs_lst) -> Vocab] :
        \A k \in 1..Len(g_log_probs_lst) : \A v \in Vocab :
            g_log_probs_lst[k][i][v] <= g_log_probs_lst[k][i][toks[k]]}

\* C12: the greedy searcher returns, for each example, the sum over all
\* steps of the log-probability of the step's arg-max token as its score,
\* and the arg-max tokens up to, and without, the first eos among them.
GreedyReturnsArgMaxSums ==
    pc = "returned" =>
        \A i \in Examples : \E toks \in ArgMaxTokens(i) :
            /\ top_scores[i] =
                  SumSeq([k \in 1..Len(toks) |-> g_log_probs_lst[k][i][toks[k]]])
            /\ Len(predictions[i]) <= Len(toks)
            /\ \A k \in 1..Len(predictions[i]) :
                  predictions[i][k] = toks[k] /\ toks[k] # eos_index
            /\ Len(predictions[i]) < Len(toks) =>
                  toks[Len(predictions[i]) + 1] = eos_index

\* C12 witness: a call of three steps has returned one token for an
\* example: eos was the arg-max of the second step, and the score is the sum
\* over the three steps, whose log-probabilities are not all equal.
GreedyArgMaxWitness ==
    /\ pc = "returned"
    /\ Len(g_log_probs_lst) = 3
    /\ \E i \in Examples :
        /\ Len(predictions[i]) = 1
        /\ top_scores[i] = -4
        /\ g_log_probs_lst[3][i][eos_index] = -2

\* The types the docstring of AttentionalRNNDecoder lists, in any case.
TypesSupported ==
    /\ d_args.rnn_type \in {"rnn", "gru", "lstm", "LSTM"}
    /\ d_args.attn_type \in {"content", "location", "Location"}

\* C13 as stated: an unsupported attention type or rnn type is rejected at
\* construction: no decoder object is made with one.
UnsupportedRejectedAtConstruction ==
    d_self.made => TypesSupported

\* C13 (as amended): the constructor accepts an unsupported attention type
\* or rnn type; init_params raises ValueError for it, and for nothing else;
\* and no forward_step of a decoder with such a type ever returns.
UnsupportedRejectedAtInitParams ==
    /\ d_last.call = "__init__" => d_last.raised = "none"
    /\ d_last.call = "init_params" =>
          (d_last.raised = "ValueError" <=> ~TypesSupported)
    /\ d_steps > 0 => TypesSupported

\* C13 witness: a decoder with a supported attention type and an
\* unsupported rnn type was constructed, init_params raised, and the
\* forward_step called after that raised too.
UnsupportedRejectedWitness ==
    /\ d_self.made
    /\ d_args.attn_type = "Location"
    /\ d_args.rnn_type = "ligru"
    /\ d_self.attrs = {"proj", "attn", "drop"}
    /\ d_last = [call |-> "forward_step", raised |-> "AttributeError"]
    /\ d_steps = 0

\* C14: when forward_step fails at a step of the loop of either searcher,
\* the call ends there with that failure: it returns no predictions and no
\* scores for any example (those of an earlier call stay what they were),
\* and nothing of the call runs after it.
StepFailureAborts ==
    [][/\ (pc' = "failed" /\ pc # "failed") =>
            /\ pc = "loop"
            /\ step_calls' = step_calls + 1
            /\ predictions' = predictions
            /\ top_scores' = top_scores
            /\ g_run <= 1 => (predictions' = <<>> /\ top_scores' = <<>>)
       /\ pc = "failed" => UNCHANGED vars]_vars

\* C14 witness: the beam search of a batch of two examples with two slots
\* each has failed at its second step.
StepFailureWitness ==
    /\ pc = "failed"
    /\ ~IsGreedy
    /\ batch_size = 2
    /\ beam_size = 2
    /\ step_calls = 2
    /\ predictions = <<>>
    /\ top_scores = <<>>

\* The slots of example i that are still active: not blocked by -inf.
ActiveSlots(i) == {s \in SlotsOf(i) : sequence_scores[s] # NegInf}

\* The hypothesis a backfilled slot s gives.
BackfilledFrom(s) ==
    [hyp |-> alived_seq[s],
     score |-> FAdd(sequence_scores[s], length_penalty * max_decode_steps)]

\* C15: at finalization, for each example with n < beam_size hypotheses
\* retired in the loop, the beam_size - n hypotheses added are those of
\* distinct slots of the example, each with final score cumulative score +
\* length_penalty * max_decode_steps, and they are the highest-scoring
\* still-active slots: no active slot is left out while a slot that is not
\* active, or one of lower score, is taken.
BackfillTakesBestActive ==
    [][(pc = "loop" /\ pc' = "done") =>
        \A i \in Examples :
            LET n == Len(hyps_and_scores[i])
            IN  n < beam_size =>
                  \E sel \in [1..(beam_size - n) -> SlotsOf(i)] :
                      /\ \A k, m \in DOMAIN sel : k # m => sel[k] # sel[m]
                      /\ Len(hyps_and_scores'[i]) = beam_size
                      /\ \A k \in DOMAIN sel :
                            hyps_and_scores'[i][n + k] = BackfilledFrom(sel[k])
                      /\ \A a \in ActiveSlots(i) :
                            (\A k \in DOMAIN sel : sel[k] # a) =>
                                \A k \in DOMAIN sel :
                                    /\ sel[k] \in ActiveSlots(i)
                                    /\ sequence_scores[a] <= sequence_scores[sel[k]]]_vars

\* C16: in a step t, every hypothesis added to a retired list is the history
\* of a slot that chose eos, with score (the slot's running score after the
\* step) + length_penalty * (t + 1); the hypotheses recorded before stay as
\* they are; and the running score a slot carries to the next step is its
\* predecessor's running score plus the log-probability of its token,
\* without any length-penalty term (-inf once the slot chose eos).
RetiredScorePenalisedOnce ==
    [][(pc = "loop" /\ t' = t + 1) =>
        /\ \A s \in Slots :
              /\ scores'[s] = FAdd(sequence_scores[predecessors'[s]],
                                   masked_log_probs'[predecessors'[s]][inp_tokens'[s]])
              /\ sequence_scores'[s] =
                    IF inp_tokens'[s] = eos_index THEN NegInf ELSE scores'[s]
        /\ \A i \in Examples :
              LET old == hyps_and_scores[i]
                  new == hyps_and_scores'[i]
              IN  /\ Len(new) >= Len(old)
                  /\ SubSeq(new, 1, Len(old)) = old
                  /\ \A k \in (Len(old) + 1)..Len(new) :
                        \E s \in SlotsOf(i) :
                            /\ inp_tokens'[s] = eos_index
                            /\ new[k].hyp = alived_seq'[s]
                            /\ new[k].score =
                                  FAdd(scores'[s], length_penalty * (t + 1))]_vars

\* C16 witness: with length_penalty = 1, a hypothesis of two tokens was
\* recorded at step 1 with the finite running score of its slot plus 2,
\* next to a slot that goes on with a finite running score.
RetiredScoreWitness ==
    /\ pc = "loop"
    /\ t = 2
    /\ length_penalty = 1
    /\ \E s, r \in Slots :
        /\ inp_tokens[s] = eos_index
        /\ scores[s] > MinusInf
        /\ inp_tokens[r] # eos_index
        /\ sequence_scores[r] > MinusInf
        /\ s \div beam_size = r \div beam_size
        /\ \E k \in 1..Len(hyps_and_scores[s \div beam_size]) :
              hyps_and_scores[s \div beam_size][k] =
                  [hyp |-> alived_seq[s], score |-> scores[s] + 2]

\* C17: once every example has beam_size retired hypotheses, forward makes
\* no further StepFunction call.
NoStepOnceAllRetired ==
    [][(pc = "loop" /\ \A i \in Examples : Len(hyps_and_scores[i]) = beam_size)
          => step_calls' = step_calls]_vars

\* C18: every step, whether a slot retires or not, gives slot s the memory
\* that forward_step made for its predecessor slot (the predecessor's
\* memory with the predecessor's input token consumed) and the history of
\* the same predecessor slot with the slot's token appended; so the memory
\* of a slot is always that of the tokens of its own history: bos, then all
\* of its tokens but the last, which is the next input.
MemoryFollowsHistory ==
    [][(pc = "loop" /\ t' = t + 1) =>
        \A s \in Slots :
            /\ memory'[s] = Append(memory[predecessors'[s]],
                                   inp_tokens[predecessors'[s]])
            /\ alived_seq'[s] = Append(alived_seq[predecessors'[s]], inp_tokens'[s])
            /\ memory'[s] = <<bos_index>> \o SubSeq(alived_seq'[s], 1, t)
            /\ Len(alived_seq'[s]) = t + 1]_vars

\* C18 witness: the second step of a beam of two has swapped the two slots
\* of an example, whose first tokens differ, without retiring either, and
\* each slot has the memory of the first token of its history.
MemorySwapWitness ==
    /\ pc = "loop"
    /\ t = 2
    /\ beam_size = 2
    /\ predecessors[0] = 1
    /\ predecessors[1] = 0
    /\ alived_seq[0][1] # alived_seq[1][1]
    /\ \A s \in {0, 1} :
        /\ inp_tokens[s] # eos_index
        /\ memory[s] = <<bos_index, alived_seq[s][1]>>

\* C19: after the eos gating of a step, wherever eos_index lies in the
\* vocabulary, the eos column of a slot holds its value (the sentinel when
\* the step is below the minimum length) if that exceeds eos_threshold * m,
\* m the maximum log-probability over all the non-eos columns of the slot,
\* and the sentinel minus_inf otherwise; the other columns are untouched.
GateUsesAllOtherColumns ==
    (pc = "loop" /\ t > 0) =>
        \A s \in Slots :
            LET row == log_probs[s]
                eos_probs == IF BelowMinSteps(t - 1) THEN MinusInf
                             ELSE row[eos_index]
            IN  /\ \A v \in Vocab \ {eos_index} : masked_log_probs[s][v] = row[v]
                /\ masked_log_probs[s][eos_index] =
                      IF 2 * eos_probs > cfg.eos_threshold2 * MaxOthers(row)
                      THEN eos_probs ELSE MinusInf

\* The eos log-probability of the row passes the eos gate, whichever
\* columns the maximum is taken over.
PassesGate(row) == 2 * row[eos_index] > cfg.eos_threshold2 * MaxOthers(row)

\* The eos column of the last step: masked for minimum length exactly when
\* the step was below `below`: the sentinel in every slot if it was, and the
\* value forward_step gave wherever that passes the eos gate if it was not.
MinLengthMasked(below) ==
    (pc = "loop" /\ t > 0) =>
        \A s \in Slots :
            /\ below => masked_log_probs[s][eos_index] = MinusInf
            /\ (~below /\ PassesGate(log_probs[s])) =>
                  masked_log_probs[s][eos_index] = log_probs[s][eos_index]

\* C20 as stated: the eos column is masked for minimum length at step t
\* exactly when t < floor(encoder_time_steps * min_decode_ratio).
MinLengthMaskAtFloor == MinLengthMasked(t - 1 < MinDecodeStepsFloor)

\* C20 (as amended): the eos column is masked for minimum length at step t
\* exactly when t < encoder_time_steps * min_decode_ratio, the product not
\* rounded (min_decode_ratio in halves).
MinLengthMaskAtProduct ==
    MinLengthMasked(2 * (t - 1) < cfg.enc_len * cfg.min_decode_ratio2)

\* C20 witness: encoder_time_steps = 3 and min_decode_ratio = 0.5 (product
\* 1.5); at step 1 a live slot whose eos log-probability passes the gate
\* had its eos column masked.
MinLengthMaskWitness ==
    /\ pc = "loop"
    /\ t = 2
    /\ cfg.enc_len = 3
    /\ cfg.min_decode_ratio2 = 1
    /\ \E s \in Slots :
        /\ PassesGate(log_probs[s])
        /\ scores[s] > MinusInf
        /\ masked_log_probs[s][eos_index] = MinusInf

\* C21: once the token chosen for a slot is eos, the running score of the
\* slot is masked, and no candidate retained by a later step has that slot
\* as its predecessor.
EosSlotNeverContinued ==
    [][(pc = "loop" /\ pc' = "loop" /\ t' = t + 1) =>
          /\ \A s \in Slots :
                inp_tokens'[s] = eos_index => sequence_scores'[s] = NegInf
          /\ t > 0 => \A s \in Slots :
                inp_tokens[predecessors'[s]] # eos_index]_vars

\* The slots of example i for which the step chose eos.
EosSlots(i, inp) == {s \in SlotsOf(i) : inp[s] = eos_index}

\* C22: a step in which slots emit eos ends without an error and is
\* followed by the rest of the loop; a retired list that already holds
\* beam_size hypotheses is left as it is, and a list with room takes only
\* as many of the completions as fit.
FullListDiscardsEos ==
    [][(pc = "loop" /\ t' = t + 1) =>
          /\ pc' = "loop"
          /\ \A i \in Examples :
                LET n == Len(hyps_and_scores[i])
                    k == Cardinality(EosSlots(i, inp_tokens'))
                IN  /\ n = beam_size => hyps_and_scores'[i] = hyps_and_scores[i]
                    /\ Len(hyps_and_scores'[i]) =
                          IF n + k <= beam_size THEN n + k ELSE beam_size]_vars

\* The last step discarded the completion of a live slot of a full list,
\* and the call went on to return.
FullListDiscardWitness ==
    /\ pc = "done"
    /\ t > 0
    /\ DOMAIN predictions = Examples
    /\ \E i \in Examples : \E s \in SlotsOf(i) :
        /\ inp_tokens[s] = eos_index
        /\ scores[s] > MinusInf
        /\ Len(hyps_and_scores[i]) = beam_size
        /\ \A k \in 1..beam_size : hyps_and_scores[i][k].hyp # alived_seq[s]
        /\ Len(alived_seq[s]) > Len(predictions[i]) + 1

\* C23: log-probabilities being at most 0, the cumulative score a step
\* keeps for a slot is at most the running score its predecessor slot had
\* before the step, and the running score left after the step is no larger.
ScoresNeverIncrease ==
    [][(pc = "loop" /\ t' = t + 1) =>
          \A s \in Slots :
              /\ scores'[s] <= sequence_scores[predecessors'[s]]
              /\ sequence_scores'[s] <= scores'[s]]_vars

\* Two steps done: a live slot that continues another slot of its example
\* carries the sum of two log-probabilities.
ScoresDecreaseWitness ==
    /\ pc = "loop"
    /\ t = 2
    /\ batch_size = 2
    /\ \E s \in Slots :
        /\ predecessors[s] # s
        /\ sequence_scores[s] = -3
        /\ scores[s] = -3

\* C24: every predecessor index of a slot of example i is a slot of
\* example i, and every hypothesis recorded for example i, by a step or by
\* finalization, is the history of a slot of example i.
PredecessorsStayInExample ==
    [][pc = "loop" =>
          /\ t' = t + 1 =>
                /\ \A s \in Slots : predecessors'[s] \in SlotsOf(s \div beam_size)
                /\ \A i \in Examples :
                    \A k \in (Len(hyps_and_scores[i]) + 1)..Len(hyps_and_scores'[i]) :
                        \E s \in SlotsOf(i) :
                            /\ inp_tokens'[s] = eos_index
                            /\ alived_seq'[s] =
                                  Append(alived_seq[predecessors'[s]], eos_index)
                            /\ hyps_and_scores'[i][k] =
                                  [hyp |-> alived_seq'[s],
                                   score |-> final_scores(scores'[s], t)]
          /\ pc' = "done" =>
                \A i \in Examples :
                    \A k \in (Len(hyps_and_scores[i]) + 1)..Len(hyps_and_scores'[i]) :
                        \E s \in SlotsOf(i) :
                            hyps_and_scores'[i][k] =
                                [hyp |-> alived_seq[s],
                                 score |-> FAdd(sequence_scores[s],
                                                length_penalty * max_decode_steps)]]_vars

\* Two steps on a batch of two: the second slot of the second example
\* continues the first slot of that example, and the example has recorded
\* a hypothesis with a score the first example has not.
PredecessorsWitness ==
    /\ pc = "loop"
    /\ t = 2
    /\ batch_size = 2
    /\ beam_size = 2
    /\ predecessors[3] = 2
    /\ Len(hyps_and_scores[1]) = 2
    /\ \A k \in 1..Len(hyps_and_scores[0]) :
          hyps_and_scores[0][k].score # hyps_and_scores[1][2].score

\* C26: a recorded pair of history and score is changed neither by a later
\* step nor by finalization: the retired list of every example only grows
\* at its end.
RecordedPairsImmutable ==
    [][(pc = "loop" /\ pc' # "failed") =>
          \A i \in Examples :
              /\ Len(hyps_and_scores'[i]) >= Len(hyps_and_scores[i])
              /\ \A k \in 1..Len(hyps_and_scores[i]) :
                    hyps_and_scores'[i][k] = hyps_and_scores[i][k]]_vars

\* The call returned with a penalised hypothesis recorded at step 0 and,
\* after it, a hypothesis added by finalization.
RecordedPairsWitness ==
    /\ pc = "done"
    /\ length_penalty = 1
    /\ max_decode_steps >= 2
    /\ \E i \in Examples :
        /\ Len(hyps_and_scores[i]) = 2
        /\ hyps_and_scores[i][1].hyp = <<eos_index>>
        /\ hyps_and_scores[i][1].score \in {lp + 1 : lp \in LogProbs}
        /\ ~HasEos(hyps_and_scores[i][2].hyp)

\* Token v has a largest log-probability of the row.
IsArgMax(v, row) == \A w \in DOMAIN row : row[w] <= row[v]

\* C27: in GreedySearcher.forward the first StepFunction call of a call
\* receives bos for every example and the memory of reset_mem; every later
\* call receives the arg-max token of the log-probabilities of the step
\* before and the memory the call before returned, which is that of bos
\* followed by the arg-max tokens of all steps before; the encoder states
\* and lengths never change.
GreedyInputChain ==
    [][(pc = "loop" /\ t' = t + 1) =>
          /\ cfg' = cfg
          /\ \A i \in Examples :
                /\ Len(memory[i]) = t
                /\ memory'[i] = Append(memory[i], inp_tokens[i])
                /\ t = 0 => inp_tokens[i] = bos_index /\ memory[i] = <<>>
                /\ t > 0 =>
                      /\ IsArgMax(inp_tokens[i], log_probs[i])
                      /\ log_probs = g_log_probs_lst[t]
                      /\ memory[i][1] = bos_index
                      /\ \A k \in 2..t :
                            IsArgMax(memory[i][k], g_log_probs_lst[k - 1][i])]_vars

\* The second call on a batch of two has made two steps and is about to
\* feed different tokens to the two examples, on different memories.
GreedyInputChainWitness ==
    /\ pc = "loop"
    /\ g_run = 2
    /\ t = 2
    /\ batch_size = 2
    /\ inp_tokens[0] # inp_tokens[1]
    /\ memory[0] # memory[1]
    /\ inp_tokens[0] # bos_index

\* C28: only the first slot of each example starting at score 0, no two
\* slots of an example whose running scores are both above -inf hold the
\* same token history.
LiveHistoriesDistinct ==
    pc # "failed" =>
        \A i \in Examples : \A s, r \in SlotsOf(i) :
            (s # r /\ sequence_scores[s] > NegInf /\ sequence_scores[r] > NegInf)
                => alived_seq[s] # alived_seq[r]

\* After two steps both slots of an example are alive and continue the same
\* slot with different tokens.
LiveHistoriesWitness ==
    /\ pc = "loop"
    /\ t = 2
    /\ beam_size = 2
    /\ \E i \in Examples :
        LET s == beam_offset(i)
        IN  /\ sequence_scores[s] > NegInf
            /\ sequence_scores[s + 1] > NegInf
            /\ predecessors[s] = predecessors[s + 1]
            /\ alived_seq[s][1] = alived_seq[s + 1][1]
            /\ alived_seq[s][2] # alived_seq[s + 1][2]

\* C29: after step t the history of every slot has t + 1 tokens, and every
\* hypothesis recorded at step t has t + 1 tokens, of which the last is eos
\* and none of the earlier ones is.
RecordedEndsAtFirstEos ==
    [][(pc = "loop" /\ t' = t + 1) =>
          /\ \A s \in Slots : Len(alived_seq'[s]) = t + 1
          /\ \A i \in Examples :
              \A k \in (Len(hyps_and_scores[i]) + 1)..Len(hyps_and_scores'[i]) :
                  LET h == hyps_and_scores'[i][k].hyp
                  IN  /\ Len(h) = t + 1
                      /\ h[t + 1] = eos_index
                      /\ \A j \in 1..t : h[j] # eos_index]_vars

\* C30: when max_decode_steps is 0, BeamSearcher.forward does not fail: it
\* returns, without a StepFunction call and without a memory permutation,
\* an empty token sequence with score 0 for every example.
ZeroStepsReturnsEmpty ==
    max_decode_steps = 0 =>
        /\ pc \in {"loop", "done"}
        /\ step_calls = 0
        /\ memory = [s \in Slots |-> <<>>]
        /\ pc = "done" =>
              /\ predictions = [i \in Examples |-> <<>>]
              /\ top_scores = [i \in Examples |-> 0]

\* No row of log-probabilities the StepFunction returned has two largest
\* values.
NoTiesSeen ==
    \A k \in 1..Len(g_log_probs_lst) : \A i \in Examples :
        Cardinality({v \in Vocab : IsArgMax(v, g_log_probs_lst[k][i])}) = 1

\* Both searchers have returned.
BothReturned == pc = "done" /\ BeamCalled /\ g_first # <<>>

\* C25: with beam_size 1, min_decode_ratio 0, eos_threshold at least 1,
\* log-probabilities at most 0 and no ties in the maximum of any step,
\* BeamSearcher.forward and GreedySearcher.forward, with the same
\* StepFunction and on the same input, return the same token sequence
\* for every example.
BeamOneEqualsGreedy ==
    (/\ BothReturned
     /\ beam_size = 1
     /\ cfg.min_decode_ratio2 = 0
     /\ cfg.eos_threshold2 >= 2
     /\ NoTiesSeen)
        => \A i \in Examples : predictions[i] = g_first[1][i]

\* Both searchers returned on a batch of two: one example ended at an eos
\* in the middle of the budget, the other without one, and the scores of
\* the two searchers differ.
BeamOneEqualsGreedyWitness ==
    /\ BothReturned
    /\ beam_size = 1
    /\ cfg.min_decode_ratio2 = 0
    /\ NoTiesSeen
    /\ batch_size = 2
    /\ max_decode_steps = 2
    /\ \E i, j \in Examples :
        /\ Len(predictions[i]) = 1
        /\ Len(predictions[j]) = 2
        /\ predictions[i] = g_first[1][i]
        /\ top_scores[i] # g_first[2][i]

====
